---- MODULE Spec2Model ----
(***************************************************************************)
(* ZeroSearch (src/ZeroSearch.py): the three-stage research pipeline       *)
(* get_querries / search / report over three persisted files, in its three *)
(* provider variants (Brave, Serper, Serper with the tkinter interface),   *)
(* and the ZeroSearchGUI driver that runs the stages on worker threads.    *)
(*                                                                         *)
(* Texts (page bodies, urls, summaries, the report) are modelled as        *)
(* sequences of pieces [s, o, n]: n characters of the source text named s, *)
(* starting at its offset o.  Concatenation and slicing are exact on this  *)
(* representation, so the lengths 100000 and 250000 of the code are kept.  *)
(* Query strings are modelled character by character.                      *)
(***************************************************************************)
EXTENDS Integers, Sequences, FiniteSets, TLC

VARIABLES variant, queries_file, results_file, report_file, frames, built,
          generate_btn, search_btn, report_btn, status, workers, searched

vars == <<variant, queries_file, results_file, report_file, frames, built,
          generate_btn, search_btn, report_btn, status, workers, searched>>

\* the state of the interface; searched is its history: since the last query
\* generation that succeeded, a search run has ended that had searched every
\* query of the stored list
gui == <<generate_btn, search_btn, report_btn, status, workers, searched>>

\* ------------------------------------------------------------------ bounds
MaxResults == 2
MaxCorpus == 3
MaxContentLen == 4
MaxWorkers == 2
MaxListed == 11
MaxChunks == 2

\* ------------------------------------------------------- program constants
TEXT_LIMIT == 100000
MAX_TOKENS == 100000
CHUNK_SIZE == (MAX_TOKENS * 5) \div 2
\* "count": 10 (Brave) and "num": 10 (Serper) of the provider request
RequestedCount == 10

\* ------------------------------------------------------------------- texts
Lit(name, len) == IF len = 0 THEN <<>> ELSE <<[s |-> name, o |-> 0, n |-> len]>>

RECURSIVE StrLen(_)
StrLen(x) == IF x = <<>> THEN 0 ELSE Head(x).n + StrLen(Tail(x))

Cat(x, y) ==
    IF x = <<>> THEN y
    ELSE IF y = <<>> THEN x
    ELSE LET a == x[Len(x)]
             b == y[1]
         IN  IF a.s = b.s /\ a.o + a.n = b.o
             THEN SubSeq(x, 1, Len(x) - 1) \o <<[s |-> a.s, o |-> a.o, n |-> a.n + b.n]>> \o Tail(y)
             ELSE x \o y

RECURSIVE StrTake(_, _)
StrTake(x, k) ==
    IF k <= 0 \/ x = <<>> THEN <<>>
    ELSE IF Head(x).n <= k THEN Cat(<<Head(x)>>, StrTake(Tail(x), k - Head(x).n))
    ELSE <<[Head(x) EXCEPT !.n = k]>>

RECURSIVE StrDrop(_, _)
StrDrop(x, k) ==
    IF k <= 0 \/ x = <<>> THEN x
    ELSE IF Head(x).n <= k THEN StrDrop(Tail(x), k - Head(x).n)
    ELSE <<[Head(x) EXCEPT !.o = @ + k, !.n = @ - k]>> \o Tail(x)

\* x[i:j] for 0 <= i <= j
Slice(x, i, j) == StrTake(StrDrop(x, i), j - i)

RECURSIVE Join(_, _)
Join(sep, xs) ==
    IF xs = <<>> THEN <<>>
    ELSE IF Len(xs) = 1 THEN xs[1]
    ELSE Cat(Cat(xs[1], sep), Join(sep, Tail(xs)))

RECURSIVE Flatten(_)
Flatten(xs) == IF xs = <<>> THEN <<>> ELSE Cat(Head(xs), Flatten(Tail(xs)))

IsPrefix(a, b) == Len(a) <= Len(b) /\ SubSeq(b, 1, Len(a)) = a

\* ------------------------------------------------------------------- files
\* A file is absent, zero-length ("empty"), a complete JSON document or
\* text ("data"), or bytes json.load rejects ("corrupt").  size stands for
\* os.path.getsize: 0 exactly for an absent or zero-length file.
AbsentFile == [st |-> "absent", data |-> <<>>, size |-> 0]
EmptyFile == [st |-> "empty", data |-> <<>>, size |-> 0]

\* bytes of json.dump(list of records): brackets, and per record its three
\* strings with their keys and punctuation
RECURSIVE JsonSize(_)
JsonSize(recs) ==
    IF recs = <<>> THEN 2
    ELSE 40 + StrLen(Head(recs).url) + StrLen(Head(recs).title.s)
         + StrLen(Head(recs).text) + JsonSize(Tail(recs))

ResultsDoc(recs) == [st |-> "data", data |-> recs, size |-> JsonSize(recs)]
QueriesDoc(qs) == [st |-> "data", data |-> qs, size |-> 2 + Len(qs)]
TextFile(t) == [st |-> IF t = <<>> THEN "empty" ELSE "data", data |-> t, size |-> StrLen(t)]

Exists(f) == f.st # "absent"
GetSize(f) == f.size

\* what json.load of the corpus yields where the code guards it with
\* exists and getsize > 0 (search, lines 104-107)
Corpus == IF results_file.st = "data" THEN results_file.data ELSE <<>>

Sentinel == Lit("No results available for reporting", 34)

\* ------------------------------------------------------- the environment
Variants == {"Brave", "Serper", "SerperGUI"}
IsSerper(v) == v \in {"Serper", "SerperGUI"}

NoTitle == [isNone |-> TRUE, s |-> <<>>]
Title(t) == [isNone |-> FALSE, s |-> t]

\* one entry of the provider's result list: has_url is the presence of the
\* key the variant reads ('url' for Brave, 'link' for Serper)
ResA == [has_url |-> TRUE, url |-> Lit("url1", 11), title |-> Lit("ptitle", 6)]
ResB == [has_url |-> TRUE, url |-> Lit("url2", 12), title |-> <<>>]
ResNoUrl == [has_url |-> FALSE, url |-> <<>>, title |-> Lit("ptitle", 6)]
ResEmptyUrl == [has_url |-> TRUE, url |-> <<>>, title |-> <<>>]
ResultKinds == {ResA, ResB, ResNoUrl, ResEmptyUrl}

\* the outcome of requests.get + BeautifulSoup for one url: soup.title
\* (absent, or an element whose .string is None or a text) and the
\* whitespace-collapsed soup.body text (absent, or a text)
FetchFailed == [ok |-> FALSE, has_title |-> FALSE, title_string |-> NoTitle,
                has_body |-> FALSE, body |-> <<>>]
PageSmall == [ok |-> TRUE, has_title |-> TRUE, title_string |-> Title(Lit("doctitle", 8)),
              has_body |-> TRUE, body |-> Lit("page1", 5)]
PageBare == [ok |-> TRUE, has_title |-> FALSE, title_string |-> NoTitle,
             has_body |-> FALSE, body |-> <<>>]
PageLong == [ok |-> TRUE, has_title |-> TRUE, title_string |-> NoTitle,
             has_body |-> TRUE, body |-> Lit("page2", 150000)]
Pages == {PageSmall, PageBare, PageLong}

\* a fetch that answers for the empty url as for any other
FetchOutcomesAnyUrl(url) == Pages \cup {FetchFailed}

\* requests.get of an empty url raises MissingSchema, inside the try
FetchOutcomes(url) == IF url = <<>> THEN {FetchFailed} ELSE Pages \cup {FetchFailed}

BigRecord == [url |-> Lit("url1", 11), title |-> Title(Lit("ptitle", 6)),
              text |-> Lit("page2", TEXT_LIMIT)]

\* what an earlier session can have left in results.json
PreResults == {AbsentFile, EmptyFile, ResultsDoc(<<BigRecord, BigRecord>>)}
PreQueries == {AbsentFile}
PreReport == {AbsentFile, TextFile(Lit("old report", 10))}

RECURSIVE SeqsUpTo(_, _)
SeqsUpTo(S, n) ==
    IF n = 0 THEN {<<>>}
    ELSE LET shorter == SeqsUpTo(S, n - 1)
         IN  shorter \cup {Append(x, e) : x \in {y \in shorter : Len(y) = n - 1}, e \in S}

\* ------------------------------------------------------------ call frames
\* thread 0 is the thread of a script; the others are the worker threads
\* the interface starts
Workers == 1..MaxWorkers
Threads == 0..MaxWorkers
Main == CHOOSE t \in Threads : t \notin Workers

IdleFrame ==
    [op |-> "none", pc |-> "idle", exc |-> "none", query |-> <<>>,
     web_results |-> <<>>, i |-> 0, results |-> <<>>, existing_results |-> <<>>,
     queries |-> <<>>, loaded |-> <<>>, chunked |-> FALSE, texts |-> <<>>,
     summaries |-> <<>>, final_report |-> <<>>, ret |-> <<>>,
     \* history of the call, for the properties
     before |-> [q |-> AbsentFile, c |-> AbsentFile, r |-> AbsentFile],
     raw |-> <<>>, log |-> <<>>, posts |-> <<>>, cwrites |-> 0, rwrites |-> 0]

Done(t) == frames[t].pc \in {"idle", "returned", "raised"}

Begin(name) ==
    [IdleFrame EXCEPT !.op = name,
                      !.before = [q |-> queries_file, c |-> results_file, r |-> report_file]]

\* a worker thread of the interface: what it runs, where it is, the query
\* list a search run has read, the place of the query it is at and, as
\* history, the queries it has called search() with and the records its
\* returned search() calls have appended
NoWorker ==
    [kind |-> "none", pc |-> "none", queries |-> <<>>, qi |-> 0,
     called |-> <<>>, appended |-> <<>>]

\* ------------------------------------------------------------ constructor
\* __init__: a file that does not exist is created, results.json as "[]"
\* and the other two zero-length; an existing file is left as it is
InitFile(pre, isResults) ==
    IF Exists(pre) THEN pre
    ELSE IF isResults THEN ResultsDoc(<<>>) ELSE EmptyFile

InitFrom(pre_results) ==
    /\ variant \in Variants
    /\ \E pre \in PreQueries : queries_file = InitFile(pre, FALSE)
    /\ \E pre \in pre_results : results_file = InitFile(pre, TRUE)
    /\ \E pre \in PreReport : report_file = InitFile(pre, FALSE)
    /\ frames = [t \in Threads |-> IdleFrame]
    /\ built = Len(Corpus)
    /\ generate_btn = "normal"
    /\ search_btn = "disabled"
    /\ report_btn = "disabled"
    /\ status = "Ready"
    /\ workers = [w \in Workers |-> NoWorker]
    /\ searched = FALSE

Init == InitFrom(PreResults)

\* ----------------------------------------------------------- get_querries
\* A response content is a sequence of characters.
Alphabet == {"a", " ", "\n"}
IsSpace(c) == c \in {" ", "\n"}

RECURSIVE LStrip(_)
LStrip(str) == IF str # <<>> /\ IsSpace(Head(str)) THEN LStrip(Tail(str)) ELSE str

RECURSIVE RStrip(_)
RStrip(str) ==
    IF str # <<>> /\ IsSpace(str[Len(str)]) THEN RStrip(SubSeq(str, 1, Len(str) - 1)) ELSE str

\* str.strip()
Strip(str) == RStrip(LStrip(str))

\* str.split('\n')
RECURSIVE SplitLines(_)
SplitLines(str) ==
    IF \A i \in 1..Len(str) : str[i] # "\n" THEN <<str>>
    ELSE LET i == CHOOSE i \in 1..Len(str) : str[i] = "\n" /\ \A j \in 1..(i - 1) : str[j] # "\n"
         IN  <<SubSeq(str, 1, i - 1)>> \o SplitLines(SubSeq(str, i + 1, Len(str)))

NonBlank(q) == Strip(q) # <<>>

\* the cleaning without its "if q.strip()"
CleanQueriesKeepBlank(content) ==
    LET kept == SplitLines(Strip(content))
    IN  [k \in 1..Len(kept) |-> Strip(kept[k])]

\* lines 44-45: [q.strip() for q in raw_queries.split('\n') if q.strip()]
CleanQueries(content) ==
    LET raw_queries == Strip(content)
        kept == SelectSeq(SplitLines(raw_queries), NonBlank)
    IN  [k \in 1..Len(kept) |-> Strip(kept[k])]

AllContents == SeqsUpTo(Alphabet, MaxContentLen)
SampleContents == {<<"a", "\n", "a", "a">>}

\* querries.json opened for writing before the language model is called
GetQuerriesCallTruncating(t, contents) ==
    /\ Done(t)
    /\ queries_file' = EmptyFile
    /\ \/ frames' = [frames EXCEPT ![t] =
                        [Begin("get_querries") EXCEPT !.pc = "raised", !.exc = "LMError"]]
       \/ \E content \in contents :
             frames' = [frames EXCEPT ![t] =
                           [Begin("get_querries") EXCEPT !.pc = "save", !.raw = content,
                                                         !.queries = CleanQueries(content)]]
    /\ UNCHANGED <<variant, results_file, report_file, built, gui>>

\* lines 28-45: the language-model call and the cleaning of its answer; a
\* failed call or an answer without choices[0].message.content raises
GetQuerriesCall(t, contents) ==
    /\ Done(t)
    /\ \/ frames' = [frames EXCEPT ![t] =
                        [Begin("get_querries") EXCEPT !.pc = "raised", !.exc = "LMError"]]
       \/ \E content \in contents :
             frames' = [frames EXCEPT ![t] =
                           [Begin("get_querries") EXCEPT !.pc = "save", !.raw = content,
                                                         !.queries = CleanQueries(content)]]
    /\ UNCHANGED <<variant, queries_file, results_file, report_file, built, gui>>

\* the list written to self.results_file in place of self.queries_file
GetQuerriesSaveWrongFile(t) ==
    /\ frames[t].op = "get_querries" /\ frames[t].pc = "save"
    /\ results_file' = QueriesDoc(frames[t].queries)
    /\ frames' = [frames EXCEPT ![t].pc = "returned"]
    /\ UNCHANGED <<variant, queries_file, report_file, built, gui>>

\* lines 48-51: the list replaces the stored one and is returned
GetQuerriesSave(t) ==
    /\ frames[t].op = "get_querries" /\ frames[t].pc = "save"
    /\ queries_file' = QueriesDoc(frames[t].queries)
    /\ frames' = [frames EXCEPT ![t].pc = "returned"]
    /\ UNCHANGED <<variant, results_file, report_file, built, gui>>

\* ----------------------------------------------------------------- search
Queries == {<<"a">>}

\* what a provider answers: up to MaxResults results (a response without
\* 'web'/'results' or 'organic' reads as the empty list, lines 68 and 241)
ResultLists == SeqsUpTo(ResultKinds, MaxResults)

\* the answers whose records the corpus of the model has room for
Room(lists) ==
    {l \in lists : Len(Corpus) + Len(l) <= MaxCorpus /\ built + Len(l) <= MaxCorpus}

\* lines 77-80: the provider's title, else the document's <title> string
ResolveTitle(res, page) ==
    IF res.title = <<>> /\ page.has_title THEN page.title_string ELSE Title(res.title)

\* lines 82-88
ExtractText(page) == IF page.has_body THEN page.body ELSE <<>>

\* the record without the [:100000] of line 93
BuildRecordUntruncated(res, page) ==
    [url |-> res.url, title |-> ResolveTitle(res, page), text |-> ExtractText(page)]

\* lines 90-94
BuildRecord(res, page) ==
    [url |-> res.url, title |-> ResolveTitle(res, page),
     text |-> Slice(ExtractText(page), 0, TEXT_LIMIT)]

\* a search that opens results.json for writing before it calls the provider
SearchCallTruncating(t, query, lists) ==
    /\ Done(t)
    /\ results_file' = EmptyFile
    /\ \/ frames' = [frames EXCEPT ![t] =
                        [Begin("search") EXCEPT !.query = query, !.pc = "raised",
                                                !.exc = "ProviderError"]]
       \/ \E web_results \in lists :
             frames' = [frames EXCEPT ![t] =
                           [Begin("search") EXCEPT !.query = query, !.pc = "loop", !.i = 1,
                                                   !.web_results = web_results]]
    /\ UNCHANGED <<variant, queries_file, report_file, built>>

\* lines 53-68: the provider call; a failed call or a body that is not JSON
\* raises out of search before anything is read or written
SearchCall(t, query, lists) ==
    /\ Done(t)
    /\ \/ frames' = [frames EXCEPT ![t] =
                        [Begin("search") EXCEPT !.query = query, !.pc = "raised",
                                                !.exc = "ProviderError"]]
       \/ \E web_results \in lists :
             frames' = [frames EXCEPT ![t] =
                           [Begin("search") EXCEPT !.query = query, !.pc = "loop", !.i = 1,
                                                   !.web_results = web_results]]
    /\ UNCHANGED <<variant, queries_file, results_file, report_file, built>>

\* what the loop did with one result; slept: time.sleep(1) ran before the
\* loop went on to the next result
Entry(res, outcome, page, slept) ==
    [res |-> res, outcome |-> outcome, page |-> page, slept |-> slept]

\* lines 245-246 (Serper): a result without a link is passed over
SkipResult(f, res) ==
    [f EXCEPT !.i = f.i + 1, !.log = Append(f.log, Entry(res, "nourl", FetchFailed, FALSE))]

\* line 71 (Brave): res['url'] of a result without that key
RaiseKeyError(f, res) == [f EXCEPT !.pc = "raised", !.exc = "KeyError"]

\* the loop body without its try/except
OnFetchErrorUncaught(f, res, page) == [f EXCEPT !.pc = "raised", !.exc = "FetchError"]

\* lines 99-101: except Exception: print, continue; the sleep of line 97
\* is in the try, behind the statement that raised
OnFetchError(f, res, page) ==
    [f EXCEPT !.i = f.i + 1, !.log = Append(f.log, Entry(res, "failed", page, FALSE))]

\* results.insert(0, ...) in place of results.append(...)
OnFetchedPrepend(f, res, page) ==
    [f EXCEPT !.i = f.i + 1, !.results = <<BuildRecord(res, page)>> \o f.results,
              !.log = Append(f.log, Entry(res, "built", page, TRUE))]

\* lines 75-97: the record is appended to the results of this call, and
\* time.sleep(1) follows
OnFetched(f, res, page) ==
    [f EXCEPT !.i = f.i + 1, !.results = Append(f.results, BuildRecord(res, page)),
              !.log = Append(f.log, Entry(res, "built", page, TRUE))]

\* one pass of the loop over the results, lines 70-101 (Brave) and 243-277:
\* Brave reads res['url'] outside the try, Serper skips a result without a
\* link; a fetch or parse error is caught and the result skipped, a fetched
\* page gives a record and is followed by the one-second sleep
SearchItem(t, outcomes) ==
    LET f == frames[t]
        res == f.web_results[f.i]
    IN  /\ f.op = "search" /\ f.pc = "loop" /\ f.i <= Len(f.web_results)
        /\ IF ~IsSerper(variant) /\ ~res.has_url
           THEN frames' = [frames EXCEPT ![t] = RaiseKeyError(f, res)]
           ELSE IF IsSerper(variant) /\ (~res.has_url \/ res.url = <<>>)
           THEN frames' = [frames EXCEPT ![t] = SkipResult(f, res)]
           ELSE \E page \in FetchOutcomes(res.url) \cap (outcomes \cup {FetchFailed}) :
                   frames' = [frames EXCEPT ![t] = IF page.ok THEN OnFetched(f, res, page)
                                                   ELSE OnFetchError(f, res, page)]
        /\ UNCHANGED <<variant, queries_file, results_file, report_file, built, gui>>

\* existing_results = results in place of existing_results.extend(results)
ExtendOverwrite(existing_results, results) == results

\* line 109
Extend(existing_results, results) == existing_results \o results

\* lines 104-109: the stored corpus is read (an absent or zero-length file
\* reads as no records) and the new records are put behind it; built counts
\* the records of the calls that got this far
SearchLoad(t) ==
    LET f == frames[t]
    IN  /\ f.op = "search" /\ f.pc = "loop" /\ f.i > Len(f.web_results)
        /\ IF Exists(results_file) /\ GetSize(results_file) > 0
           THEN IF results_file.st = "data"
                THEN frames' = [frames EXCEPT ![t].pc = "open",
                                    ![t].existing_results = Extend(results_file.data, f.results)]
                ELSE frames' = [frames EXCEPT ![t].pc = "raised", ![t].exc = "JSONDecodeError"]
           ELSE frames' = [frames EXCEPT ![t].pc = "open",
                               ![t].existing_results = Extend(<<>>, f.results)]
        /\ built' = built + Len(f.results)
        /\ UNCHANGED <<variant, queries_file, results_file, report_file, gui>>

\* line 111: open(results_file, 'w') truncates the file
SearchOpen(t) ==
    /\ frames[t].op = "search" /\ frames[t].pc = "open"
    /\ results_file' = EmptyFile
    /\ frames' = [frames EXCEPT ![t].pc = "dump"]
    /\ UNCHANGED <<variant, queries_file, report_file, built, gui>>

\* the file after json.dump writes doc from offset 0 of a file that holds
\* cur: bytes of a longer cur written since the open stay behind the document
Overwrite(cur, doc) ==
    IF cur.size > doc.size THEN [st |-> "corrupt", data |-> <<>>, size |-> cur.size] ELSE doc

\* line 112: json.dump of the whole list
SearchDump(t) ==
    /\ frames[t].op = "search" /\ frames[t].pc = "dump"
    /\ results_file' = Overwrite(results_file, ResultsDoc(frames[t].existing_results))
    /\ frames' = [frames EXCEPT ![t].pc = "returned", ![t].cwrites = @ + 1]
    /\ UNCHANGED <<variant, queries_file, report_file, built, gui>>

\* ----------------------------------------------------------------- report
NL == Lit("\n", 1)
BlankLine == Lit("\n\n", 2)

\* line 124: "\n\n".join(f"Source: {res['url']}\n{res['text']}" ...)
Block(rec) == Cat(Cat(Cat(Lit("Source: ", 8), rec.url), NL), rec.text)
FullText(results) == Join(BlankLine, [k \in 1..Len(results) |-> Block(results[k])])

\* [...][i:i+CHUNK_SIZE] taken from range(0, len(full_text) + 1, CHUNK_SIZE)
ChunksWithEmptyTail(full_text) ==
    LET len == StrLen(full_text)
        count == (len \div CHUNK_SIZE) + 1
    IN  [k \in 1..count |-> Slice(full_text, (k - 1) * CHUNK_SIZE, (k - 1) * CHUNK_SIZE + CHUNK_SIZE)]

\* line 132: [full_text[i:i+CHUNK_SIZE] for i in range(0, len(full_text), CHUNK_SIZE)]
Chunks(full_text) ==
    LET len == StrLen(full_text)
        count == (len + CHUNK_SIZE - 1) \div CHUNK_SIZE
    IN  [k \in 1..count |-> Slice(full_text, (k - 1) * CHUNK_SIZE, (k - 1) * CHUNK_SIZE + CHUNK_SIZE)]

\* line 131
NeedsChunks(full_text) == StrLen(full_text) > CHUNK_SIZE

\* what the language model can answer, stripped (line 172)
Summaries == {Lit("summary1", 20), Lit("summary2", 30)}

\* lines 116-118: without a results file, or with a zero-length one, the
\* sentinel is returned
ReportCheck(t) ==
    /\ Done(t)
    /\ IF ~Exists(results_file) \/ GetSize(results_file) = 0
       THEN frames' = [frames EXCEPT ![t] =
                          [Begin("report") EXCEPT !.pc = "returned", !.ret = Sentinel]]
       ELSE frames' = [frames EXCEPT ![t] = [Begin("report") EXCEPT !.pc = "load"]]
    /\ UNCHANGED <<variant, queries_file, results_file, report_file, built, gui>>

\* lines 120-133: the corpus is loaded and joined into one text, which is
\* cut into chunks when it is longer than CHUNK_SIZE
ReportLoad(t) ==
    LET f == frames[t]
        full_text == FullText(results_file.data)
    IN  /\ f.op = "report" /\ f.pc = "load"
        /\ IF results_file.st # "data"
           THEN frames' = [frames EXCEPT ![t].pc = "raised", ![t].exc = "JSONDecodeError"]
           ELSE frames' = [frames EXCEPT ![t].pc = "summarize",
                               ![t].loaded = results_file.data,
                               ![t].chunked = NeedsChunks(full_text),
                               ![t].texts = IF NeedsChunks(full_text) THEN Chunks(full_text)
                                            ELSE <<full_text>>]
        /\ UNCHANGED <<variant, queries_file, results_file, report_file, built, gui>>

\* the text of the next _get_ai_summary call: the next chunk (line 136),
\* the joined chunk summaries (lines 139-140), or the whole text (line 142)
NextText(f) ==
    IF f.chunked /\ Len(f.summaries) = Len(f.texts) THEN Join(BlankLine, f.summaries)
    ELSE f.texts[Len(f.summaries) + 1]

\* the summary of the last chunk taken as the report
IsFinalCallEarly(f) == IF f.chunked THEN Len(f.summaries) + 1 = Len(f.texts) ELSE TRUE

IsFinalCall(f) == IF f.chunked THEN Len(f.summaries) = Len(f.texts) ELSE TRUE

\* _get_ai_summary, lines 150-172 and 327-349: the Serper classes read
\* self.openrouter_api_key, which their __init__ never sets (it sets
\* openrouter_key), so the call raises before any request is posted
HasApiKeyAttribute(v) == ~IsSerper(v)

\* the failing call caught and made again
OnSummaryErrorRetry(f, text) ==
    [f EXCEPT !.exc = "LMError", !.posts = Append(f.posts, text)]

\* lines 159-172: requests.post or response.json() raising, or an answer
\* without choices[0].message.content, raises out of _get_ai_summary and report
OnSummaryError(f, text) ==
    [f EXCEPT !.pc = "raised", !.exc = "LMError", !.posts = Append(f.posts, text)]

\* one _get_ai_summary call of report, lines 135-142
ReportSummarize(t) ==
    LET f == frames[t]
        text == NextText(f)
    IN  /\ f.op = "report" /\ f.pc = "summarize"
        /\ IF ~HasApiKeyAttribute(variant)
           THEN frames' = [frames EXCEPT ![t].pc = "raised", ![t].exc = "AttributeError"]
           ELSE \E answer \in Summaries \cup {<<>>} :
                   IF answer = <<>>
                   THEN frames' = [frames EXCEPT ![t] = OnSummaryError(f, text)]
                   ELSE IF IsFinalCall(f)
                   THEN frames' = [frames EXCEPT ![t].pc = "write",
                                       ![t].final_report = answer,
                                       ![t].posts = Append(f.posts, text)]
                   ELSE frames' = [frames EXCEPT ![t].summaries = Append(f.summaries, answer),
                                       ![t].posts = Append(f.posts, text)]
        /\ UNCHANGED <<variant, queries_file, results_file, report_file, built, gui>>

\* the report opened with mode 'a' in place of 'w'
ReportWriteAppending(t) ==
    LET f == frames[t]
    IN  /\ f.op = "report" /\ f.pc = "write"
        /\ report_file' = TextFile(Cat(report_file.data, f.final_report))
        /\ frames' = [frames EXCEPT ![t].pc = "returned", ![t].ret = f.final_report,
                          ![t].rwrites = @ + 1]
        /\ UNCHANGED <<variant, queries_file, results_file, built, gui>>

\* lines 144-148: the report replaces the stored one and is returned
ReportWrite(t) ==
    LET f == frames[t]
    IN  /\ f.op = "report" /\ f.pc = "write"
        /\ report_file' = TextFile(f.final_report)
        /\ frames' = [frames EXCEPT ![t].pc = "returned", ![t].ret = f.final_report,
                          ![t].rwrites = @ + 1]
        /\ UNCHANGED <<variant, queries_file, results_file, built, gui>>

\* ------------------------------------------------------ sequential driver
\* A script calls the three operations one after another, in any order.
Next ==
    \/ GetQuerriesCall(Main, SampleContents)
    \/ GetQuerriesSave(Main)
    \/ \E query \in Queries : SearchCall(Main, query, Room(ResultLists)) /\ UNCHANGED gui
    \/ SearchItem(Main, Pages)
    \/ SearchLoad(Main)
    \/ SearchOpen(Main)
    \/ SearchDump(Main)
    \/ ReportCheck(Main)
    \/ ReportLoad(Main)
    \/ ReportSummarize(Main)
    \/ ReportWrite(Main)

Spec == Init /\ [][Next]_vars

\* ------------------------------------------------------------ ZeroSearchGUI
\* The interface runs on the third ZeroSearch class.  A handler runs on the
\* Tk thread, in one step; the worker thread it starts runs the operation
\* step by step beside the other workers.  A worker that has left its try
\* body waits in its message box ("dialog") until its finally runs.
MaxGuiResults == 1
GuiResultLists == SeqsUpTo({ResA}, MaxGuiResults)
GuiPages == {PageSmall}
GuiContents == {<<"a", "\n", "a", "a">>}
Themes == {<<" ">>, <<"a">>}

\* the interface started in a directory without files of an earlier session
InitGUI ==
    /\ Init
    /\ variant = "SerperGUI"
    /\ results_file = InitFile(AbsentFile, TRUE)
    /\ report_file = InitFile(AbsentFile, FALSE)

Free(w) == workers[w].kind = "none"

Started(kind, pc) ==
    [kind |-> kind, pc |-> pc, queries |-> <<>>, qi |-> 0,
     called |-> <<>>, appended |-> <<>>]

\* generate_queries, lines 604-614 and 634: a blank theme only shows an
\* error box; otherwise the button is disabled and the worker started
generate_queries(w, theme) ==
    IF Strip(theme) = <<>>
    THEN UNCHANGED vars
    ELSE /\ Free(w)
         /\ generate_btn' = "disabled"
         /\ status' = "Generating research queries..."
         /\ workers' = [workers EXCEPT ![w] = Started("gen", "run")]
         /\ UNCHANGED <<variant, queries_file, results_file, report_file, frames, built, searched,
                        search_btn, report_btn>>

\* lines 559-560: a click on "1. Generate Queries", which an enabled button takes
ClickGenerate(w) ==
    /\ generate_btn = "normal"
    /\ \E theme \in Themes : generate_queries(w, theme)

\* line 553: Return in the theme entry calls the handler whatever the button's state
PressReturn(w) == \E theme \in Themes : generate_queries(w, theme)

\* line 618
GenCall(w, contents) ==
    /\ workers[w].kind = "gen" /\ workers[w].pc = "run" /\ frames[w].pc = "idle"
    /\ GetQuerriesCall(w, contents)

\* lines 619-626: the queries are listed, "Run Searches" is enabled and
\* "Generate Report" disabled
GenSucceeded(w) ==
    /\ workers[w].kind = "gen" /\ workers[w].pc = "run" /\ frames[w].pc = "returned"
    /\ search_btn' = "normal"
    /\ report_btn' = "disabled"
    /\ searched' = FALSE
    /\ workers' = [workers EXCEPT ![w].pc = "dialog"]
    /\ UNCHANGED <<variant, queries_file, results_file, report_file, frames, built,
                   generate_btn, status>>

\* lines 627-629
GenFailed(w) ==
    /\ workers[w].kind = "gen" /\ workers[w].pc = "run" /\ frames[w].pc = "raised"
    /\ workers' = [workers EXCEPT ![w].pc = "dialog"]
    /\ UNCHANGED <<variant, queries_file, results_file, report_file, frames, built, searched,
                   generate_btn, search_btn, report_btn, status>>

\* lines 630-632: finally; the thread ends
GenFinally(w) ==
    /\ workers[w].kind = "gen" /\ workers[w].pc = "dialog"
    /\ generate_btn' = "normal"
    /\ status' = "Ready"
    /\ workers' = [workers EXCEPT ![w] = NoWorker]
    /\ frames' = [frames EXCEPT ![w] = IdleFrame]
    /\ UNCHANGED <<variant, queries_file, results_file, report_file, built, searched,
                   search_btn, report_btn>>

\* run_searches, lines 636-642 and 671: a click on "2. Run Searches"
ClickRunSearches(w) ==
    /\ search_btn = "normal"
    /\ Free(w)
    /\ search_btn' = "disabled"
    /\ status' = "Running web searches..."
    /\ workers' = [workers EXCEPT ![w] = Started("search", "read")]
    /\ UNCHANGED <<variant, queries_file, results_file, report_file, frames, built, searched,
                   generate_btn, report_btn>>

\* lines 646-649: json.load of querries.json, which raises on a zero-length file
RunRead(w) ==
    /\ workers[w].kind = "search" /\ workers[w].pc = "read"
    /\ IF queries_file.st = "data"
       THEN workers' = [workers EXCEPT ![w].pc = "run", ![w].queries = queries_file.data,
                                       ![w].qi = 1]
       ELSE workers' = [workers EXCEPT ![w].pc = "dialog"]
    /\ UNCHANGED <<variant, queries_file, results_file, report_file, frames, built, searched,
                   generate_btn, search_btn, report_btn, status>>

\* lines 650-653: the next query is searched
RunSearch(w, lists) ==
    /\ workers[w].kind = "search" /\ workers[w].pc = "run" /\ frames[w].pc = "idle"
    /\ workers[w].qi <= Len(workers[w].queries)
    /\ status' = "Searching"
    /\ SearchCall(w, workers[w].queries[workers[w].qi], lists)
    /\ workers' = [workers EXCEPT ![w].called = Append(@, workers[w].queries[workers[w].qi])]
    /\ UNCHANGED <<generate_btn, search_btn, report_btn, searched>>

\* lines 655-658: search returned; the progress bar moves and the loop goes on
RunNext(w) ==
    /\ workers[w].kind = "search" /\ workers[w].pc = "run" /\ frames[w].pc = "returned"
    /\ workers' = [workers EXCEPT ![w].qi = @ + 1,
                                   ![w].appended = @ \o frames[w].results]
    /\ frames' = [frames EXCEPT ![w] = IdleFrame]
    /\ UNCHANGED <<variant, queries_file, results_file, report_file, built, searched,
                   generate_btn, search_btn, report_btn, status>>

\* lines 663-665: search raised; the loop is left
RunFailed(w) ==
    /\ workers[w].kind = "search" /\ workers[w].pc = "run" /\ frames[w].pc = "raised"
    /\ workers' = [workers EXCEPT ![w].pc = "dialog"]
    /\ UNCHANGED <<variant, queries_file, results_file, report_file, frames, built, searched,
                   generate_btn, search_btn, report_btn, status>>

\* lines 660-662: every query searched; "Generate Report" is enabled
RunSucceeded(w) ==
    /\ workers[w].kind = "search" /\ workers[w].pc = "run" /\ frames[w].pc = "idle"
    /\ workers[w].qi > Len(workers[w].queries)
    /\ report_btn' = "normal"
    /\ searched' = (queries_file.st = "data" /\ workers[w].queries = queries_file.data)
    /\ workers' = [workers EXCEPT ![w].pc = "dialog"]
    /\ UNCHANGED <<variant, queries_file, results_file, report_file, frames, built,
                   generate_btn, search_btn, status>>

\* the worker without its finally clause
RunFinallySkipped(w) ==
    /\ workers[w].kind = "search" /\ workers[w].pc = "dialog"
    /\ workers' = [workers EXCEPT ![w] = NoWorker]
    /\ frames' = [frames EXCEPT ![w] = IdleFrame]
    /\ UNCHANGED <<variant, queries_file, results_file, report_file, built, searched,
                   generate_btn, search_btn, report_btn, status>>

\* lines 666-669: finally; the thread ends
RunFinally(w) ==
    /\ workers[w].kind = "search" /\ workers[w].pc = "dialog"
    /\ search_btn' = "normal"
    /\ status' = "Ready"
    /\ workers' = [workers EXCEPT ![w] = NoWorker]
    /\ frames' = [frames EXCEPT ![w] = IdleFrame]
    /\ UNCHANGED <<variant, queries_file, results_file, report_file, built, searched,
                   generate_btn, report_btn>>

\* generate_report, lines 673-677 and 695: a click on "3. Generate Report"
ClickGenerateReport(w) ==
    /\ report_btn = "normal"
    /\ Free(w)
    /\ report_btn' = "disabled"
    /\ status' = "Generating research report..."
    /\ workers' = [workers EXCEPT ![w] = Started("report", "run")]
    /\ UNCHANGED <<variant, queries_file, results_file, report_file, frames, built, searched,
                   generate_btn, search_btn>>

\* line 681
RepCall(w) ==
    /\ workers[w].kind = "report" /\ workers[w].pc = "run" /\ frames[w].pc = "idle"
    /\ ReportCheck(w)

\* lines 682-690: report returned or raised
RepEnded(w) ==
    /\ workers[w].kind = "report" /\ workers[w].pc = "run"
    /\ frames[w].pc \in {"returned", "raised"}
    /\ workers' = [workers EXCEPT ![w].pc = "dialog"]
    /\ UNCHANGED <<variant, queries_file, results_file, report_file, frames, built, searched,
                   generate_btn, search_btn, report_btn, status>>

\* lines 691-693: finally; the thread ends
RepFinally(w) ==
    /\ workers[w].kind = "report" /\ workers[w].pc = "dialog"
    /\ report_btn' = "normal"
    /\ status' = "Ready"
    /\ workers' = [workers EXCEPT ![w] = NoWorker]
    /\ frames' = [frames EXCEPT ![w] = IdleFrame]
    /\ UNCHANGED <<variant, queries_file, results_file, report_file, built, searched,
                   generate_btn, search_btn>>

\* (ReportWrite is no step of a worker: in this class _get_ai_summary raises,
\* so no report() of the interface gets as far as writing the report.)
NextGUI ==
    \E w \in Workers :
        \/ ClickGenerate(w)
        \/ PressReturn(w)
        \/ GenCall(w, GuiContents)
        \/ GetQuerriesSave(w)
        \/ GenSucceeded(w)
        \/ GenFailed(w)
        \/ GenFinally(w)
        \/ ClickRunSearches(w)
        \/ RunRead(w)
        \/ RunSearch(w, Room(GuiResultLists))
        \/ SearchItem(w, GuiPages)
        \/ SearchLoad(w)
        \/ SearchOpen(w)
        \/ SearchDump(w)
        \/ RunNext(w)
        \/ RunFailed(w)
        \/ RunSucceeded(w)
        \/ RunFinally(w)
        \/ ClickGenerateReport(w)
        \/ RepCall(w)
        \/ ReportLoad(w)
        \/ ReportSummarize(w)
        \/ RepEnded(w)
        \/ RepFinally(w)

SpecGUI == InitGUI /\ [][NextGUI]_vars

\* The interface under fair scheduling: a worker thread that has left its
\* try body gets to its finally clause (the thread is scheduled, and its
\* message box is dismissed).  The language model answers with one query
\* and the provider with an empty result list, so that search() has no
\* result to loop over.
LiveContents == {<<"a">>}
LiveResultLists == {<<>>}

NextLive ==
    \E w \in Workers :
        \/ ClickGenerate(w)
        \/ PressReturn(w)
        \/ GenCall(w, LiveContents)
        \/ GetQuerriesSave(w)
        \/ GenSucceeded(w)
        \/ GenFailed(w)
        \/ GenFinally(w)
        \/ ClickRunSearches(w)
        \/ RunRead(w)
        \/ RunSearch(w, LiveResultLists)
        \/ SearchLoad(w)
        \/ SearchOpen(w)
        \/ SearchDump(w)
        \/ RunNext(w)
        \/ RunFailed(w)
        \/ RunSucceeded(w)
        \/ RunFinally(w)
        \/ ClickGenerateReport(w)
        \/ RepCall(w)
        \/ ReportLoad(w)
        \/ ReportSummarize(w)
        \/ RepEnded(w)
        \/ RepFinally(w)

FairGUI ==
    \A w \in Workers :
        WF_vars(GenFinally(w)) /\ WF_vars(RunFinally(w)) /\ WF_vars(RepFinally(w))

SpecLive == InitGUI /\ [][NextLive]_vars /\ FairGUI

\* search on an empty corpus, with a provider whose response lists up to
\* MaxListed results: the code takes the list as it comes (lines 68-70)
ListedLists == {[k \in 1..n |-> ResA] : n \in 0..MaxListed}

InitListed ==
    /\ Init
    /\ results_file = InitFile(AbsentFile, TRUE)
    /\ report_file = InitFile(AbsentFile, FALSE)

NextListed ==
    \/ \E query \in Queries :
          SearchCall(Main, query, IF Corpus = <<>> THEN ListedLists ELSE {}) /\ UNCHANGED gui
    \/ SearchItem(Main, {PageSmall})
    \/ SearchLoad(Main)
    \/ SearchOpen(Main)
    \/ SearchDump(Main)

SpecListed == InitListed /\ [][NextListed]_vars

\* report on the corpora an earlier session left whose joined text has a
\* length at, just under or just over a multiple of CHUNK_SIZE
StoredRecord(n) ==
    [url |-> Lit("url1", 11), title |-> Title(Lit("ptitle", 6)), text |-> Lit("page2", n)]

\* a corpus of records with texts of at most TEXT_LIMIT characters whose
\* joined text (line 124) has len characters
RECURSIVE CorpusOfLength(_)
CorpusOfLength(len) ==
    LET head == StrLen(Block(StoredRecord(0)))
    IN  IF len <= head + TEXT_LIMIT THEN <<StoredRecord(len - head)>>
        ELSE <<StoredRecord(TEXT_LIMIT)>>
             \o CorpusOfLength(len - (head + TEXT_LIMIT) - StrLen(BlankLine))

BlobLengths == {k * CHUNK_SIZE + d : k \in 1..MaxChunks, d \in {-1, 0, 1}}

InitReport == InitFrom({ResultsDoc(CorpusOfLength(len)) : len \in BlobLengths})

NextReport ==
    \/ ReportCheck(Main)
    \/ ReportLoad(Main)
    \/ ReportSummarize(Main)
    \/ ReportWrite(Main)

SpecReport == InitReport /\ [][NextReport]_vars

\* only get_querries, over every response content up to MaxContentLen
NextQ ==
    \/ GetQuerriesCall(Main, AllContents)
    \/ GetQuerriesSave(Main)

InitQ ==
    /\ Init
    /\ results_file = InitFile(AbsentFile, TRUE)
    /\ report_file = InitFile(AbsentFile, FALSE)

SpecQ == InitQ /\ [][NextQ]_vars

\* ============================================================== properties
CorpusOf(file) == IF file.st = "data" THEN file.data ELSE <<>>

IsBuilt(e) == e.outcome = "built"

\* the records of the results a call fetched, in the order of the provider's list
RecordsOf(log) ==
    LET okEntries == SelectSeq(log, IsBuilt)
    IN  [k \in 1..Len(okEntries) |-> BuildRecord(okEntries[k].res, okEntries[k].page)]

\* C1: whenever the stored corpus holds zero records, or the results file is
\* absent or zero-length, report() returns the sentinel, posts no
\* summarization request and does not write the report.
C1_SentinelOnEmptyCorpus ==
    \A t \in Threads :
        LET f == frames[t]
        IN  (f.op = "report" /\ CorpusOf(f.before.c) = <<>>) =>
               /\ f.posts = <<>>
               /\ f.rwrites = 0
               /\ f.pc \in {"load", "summarize", "returned"}
               /\ f.pc = "returned" => f.ret = Sentinel

\* C2: a report() makes its summarization calls on the chunks, in chunk
\* order, and then one on the joined chunk summaries: never more than C+1
\* for C chunks and exactly C+1 when it returns; a text that fits in one
\* chunk gets at most one call, and exactly one when report() returns.
C2_SummarizationCalls ==
    \A t \in Threads :
        LET f == frames[t]
            expected == IF f.chunked THEN Append(f.texts, Join(BlankLine, f.summaries))
                        ELSE f.texts
        IN  f.op = "report" =>
               /\ f.chunked = (StrLen(FullText(f.loaded)) > CHUNK_SIZE)
               /\ f.chunked => Flatten(f.texts) = FullText(f.loaded)
               /\ ~f.chunked => Len(f.posts) <= 1
               /\ Len(f.posts) <= Len(expected)
               /\ \A k \in 1..Len(f.posts) :
                     f.posts[k] = IF k <= Len(f.texts) THEN f.texts[k] ELSE expected[k]
               /\ (f.pc \in {"write", "returned"} /\ f.before.c.size > 0) =>
                     Len(f.posts) = Len(expected)

C2_Witness ==
    \E t \in Threads :
        /\ frames[t].op = "report" /\ frames[t].pc = "returned"
        /\ frames[t].chunked /\ Len(frames[t].texts) = 2 /\ Len(frames[t].posts) = 3

\* C3: a failed page fetch or parse never raises out of search(): the
\* results after it are still processed and it adds no record.
C3_FetchFailuresSkipped ==
    \A t \in Threads :
        LET f == frames[t]
        IN  f.op = "search" =>
               /\ f.pc = "raised" => f.exc \in {"ProviderError", "KeyError", "JSONDecodeError"}
               /\ (f.pc = "raised" /\ f.exc = "KeyError") => ~f.web_results[f.i].has_url
               /\ \A k \in 1..Len(f.log) : f.log[k].res = f.web_results[k]
               /\ f.pc \in {"open", "dump", "returned"} => Len(f.log) = Len(f.web_results)
               /\ f.results = RecordsOf(f.log)

C3_Witness ==
    \E t \in Threads :
        /\ frames[t].op = "search" /\ frames[t].pc = "returned"
        /\ Len(frames[t].log) = 2
        /\ frames[t].log[1].outcome = "failed" /\ frames[t].log[2].outcome = "built"
        /\ Len(Corpus) = Len(CorpusOf(frames[t].before.c)) + 1

\* C4: under the sequential driver the corpus before a call of get_querries,
\* search or report, returning or raising, is a prefix of the corpus after it.
C4_AppendOnly ==
    LET f == frames[Main]
    IN  f.pc \in {"returned", "raised"} => IsPrefix(CorpusOf(f.before.c), Corpus)

C4_Witness ==
    /\ frames[Main].op = "search" /\ frames[Main].pc = "returned"
    /\ CorpusOf(frames[Main].before.c) # <<>>
    /\ Len(Corpus) > Len(CorpusOf(frames[Main].before.c))

\* C5: after a search() that built K records the corpus is the prior corpus
\* followed by exactly those K records, in the order of the provider's list.
C5_RoundTrip ==
    LET f == frames[Main]
    IN  (f.op = "search" /\ f.pc = "returned") =>
           /\ results_file.st = "data"
           /\ Corpus = CorpusOf(f.before.c) \o RecordsOf(f.log)

C5_Witness ==
    LET f == frames[Main]
    IN  /\ f.op = "search" /\ f.pc = "returned"
        /\ CorpusOf(f.before.c) # <<>>
        /\ Len(RecordsOf(f.log)) = 2
        /\ RecordsOf(f.log)[1] # RecordsOf(f.log)[2]

\* C6: in every variant, with a non-empty corpus and a language model that
\* answers every call, report() returns the answer of the final summarization
\* call, which is not the sentinel, and stores it as the report.
C6_ReportSucceeds ==
    \A t \in Threads :
        LET f == frames[t]
        IN  (f.op = "report" /\ CorpusOf(f.before.c) # <<>> /\ f.exc # "LMError") =>
               /\ f.pc # "raised"
               /\ f.pc = "returned" =>
                     /\ f.ret # Sentinel
                     /\ f.ret = f.final_report
                     /\ report_file = TextFile(f.ret)

\* C7: a get_querries that returns gives the non-blank lines of the response,
\* stripped, in their order, with no blank entry, and the stored list is then
\* exactly the returned list, whatever was stored before.
C7_QueriesCleanedAndReplaced ==
    \A t \in Threads :
        LET f == frames[t]
            lines == SplitLines(f.raw)
            nonBlank == {k \in 1..Len(lines) : \E j \in 1..Len(lines[k]) : ~IsSpace(lines[k][j])}
            Rank(k) == Cardinality({j \in nonBlank : j <= k})
        IN  (f.op = "get_querries" /\ f.pc = "returned") =>
               /\ \A k \in 1..Len(f.queries) :
                     /\ f.queries[k] # <<>>
                     /\ ~IsSpace(f.queries[k][1])
                     /\ ~IsSpace(f.queries[k][Len(f.queries[k])])
                     /\ \A j \in 1..Len(f.queries[k]) : f.queries[k][j] # "\n"
               /\ Len(f.queries) = Cardinality(nonBlank)
               /\ \A k \in nonBlank : f.queries[Rank(k)] = Strip(lines[k])
               /\ queries_file = QueriesDoc(f.queries)

C7_Witness ==
    LET f == frames[Main]
    IN  /\ f.op = "get_querries" /\ f.pc = "returned"
        /\ f.raw = <<"a", "\n", "\n", "a">>
        /\ f.before.q.st = "data" /\ f.before.q.data = <<<<"a", " ", "a">>>>
        /\ queries_file.data = <<<<"a">>, <<"a">>>>

\* C8: in every variant a result without a URL is skipped: it is not
\* fetched, gives no record, the results after it are processed and
\* search() does not raise.
C8_NoUrlSkipped ==
    \A t \in Threads :
        LET f == frames[t]
        IN  f.op = "search" =>
               /\ ~(f.pc = "raised" /\ f.exc = "KeyError")
               /\ \A k \in 1..Len(f.log) :
                     ~f.log[k].res.has_url => f.log[k].outcome = "nourl"

\* C9: search() writes the corpus once, after the last result has been
\* processed, with all its records; a search() that raises leaves the stored
\* corpus as it was.
C9_SearchAtomic ==
    LET f == frames[Main]
    IN  f.op = "search" =>
           /\ f.cwrites <= 1
           /\ f.pc \in {"loop", "open", "raised"} => (results_file = f.before.c /\ f.cwrites = 0)
           /\ f.pc = "dump" => (f.cwrites = 0 /\ f.i > Len(f.web_results))
           /\ f.pc = "returned" =>
                 /\ f.cwrites = 1
                 /\ results_file = ResultsDoc(CorpusOf(f.before.c) \o f.results)

C9_Witness ==
    LET f == frames[Main]
    IN  /\ f.op = "search" /\ f.pc = "returned" /\ f.cwrites = 1
        /\ Len(f.results) = 2 /\ CorpusOf(f.before.c) # <<>>

\* C10: no update is lost: once every worker the interface started has
\* ended, the stored corpus holds every record built by every search() call.
C10_NoLostUpdate ==
    (\A w \in Workers : Free(w)) => (results_file.st = "data" /\ Len(Corpus) >= built)

Running(w) == workers[w].pc \in {"read", "run"}

\* C11: whatever the user clicks or types, at most one worker of the
\* interface (query generation, search run or report generation) is
\* executing its operation at any time.
C11_SingleWorker == Cardinality({w \in Workers : Running(w)}) <= 1

IsFetch(e) == e.outcome \in {"built", "failed"}

\* C12: within one search() a one-second sleep lies between every two
\* consecutive page fetches, whether the earlier of the two succeeded or
\* failed.
C12_DelayBetweenFetches ==
    \A t \in Threads :
        LET f == frames[t]
        IN  f.op = "search" =>
               \A k \in 1..Len(f.log) : \A m \in (k + 1)..Len(f.log) :
                  (IsFetch(f.log[k]) /\ IsFetch(f.log[m])) =>
                     \E j \in k..(m - 1) : f.log[j].slept

\* C13: a search() appends at most 10 records, however many results the
\* provider's response lists, so that one search() per query on an empty
\* corpus leaves at most 10 records per query.
C13_AtMostTenPerSearch ==
    LET f == frames[Main]
    IN  (f.op = "search" /\ f.pc = "returned") =>
           /\ Len(f.results) <= RequestedCount
           /\ Len(Corpus) <= Len(CorpusOf(f.before.c)) + RequestedCount

\* C14: after a report() that returned a string other than the sentinel, the
\* stored report is exactly the returned string: one write, and nothing of
\* an earlier report is left.
C14_ReportReplaced ==
    LET f == frames[Main]
    IN  (f.op = "report" /\ f.pc = "returned" /\ f.ret # Sentinel) =>
           /\ report_file.st = "data"
           /\ report_file.data = f.ret
           /\ report_file.size = StrLen(f.ret)
           /\ f.rwrites = 1

C14_Witness ==
    LET f == frames[Main]
    IN  /\ f.op = "report" /\ f.pc = "returned" /\ f.ret # Sentinel
        /\ f.before.r.st = "data"
        /\ f.before.r.data # f.ret
        /\ report_file.data = f.ret

\* C15: at every point of a call, returned or raised included, get_querries
\* has left the corpus and the report as they were, search the query list
\* and the report, and report the query list and the corpus.
C15_FrameEffects ==
    LET f == frames[Main]
    IN  /\ f.op = "get_querries" => (results_file = f.before.c /\ report_file = f.before.r)
        /\ f.op = "search" => (queries_file = f.before.q /\ report_file = f.before.r)
        /\ f.op = "report" => (queries_file = f.before.q /\ results_file = f.before.c)

C15_Witness ==
    LET f == frames[Main]
    IN  /\ f.op = "get_querries" /\ f.pc = "returned"
        /\ queries_file # f.before.q
        /\ Corpus # <<>> /\ results_file = f.before.c
        /\ report_file.st = "data" /\ report_file = f.before.r

\* C16: a summarization call that fails ends report() with its error: the
\* failing call is the last request posted (no retry, no later call), and
\* the stored report is the one from before the call.
C16_SummaryFailurePropagates ==
    LET f == frames[Main]
    IN  (f.op = "report" /\ f.exc = "LMError") =>
           /\ f.pc = "raised"
           /\ Len(f.posts) = Len(f.summaries) + 1
           /\ f.posts[Len(f.posts)] = NextText(f)
           /\ f.rwrites = 0
           /\ report_file = f.before.r

C16_Witness ==
    LET f == frames[Main]
    IN  /\ f.op = "report" /\ f.pc = "raised" /\ f.exc = "LMError"
        /\ f.chunked /\ Len(f.texts) = 2 /\ Len(f.posts) = 2
        /\ f.before.r.st = "data" /\ report_file = f.before.r

\* C17: every record of the stored corpus, and every record a search()
\* holds before it stores it, has a text of at most 100,000 characters,
\* also when the text extracted from the page is longer.
C17_TextBounded ==
    /\ \A k \in 1..Len(Corpus) : StrLen(Corpus[k].text) <= TEXT_LIMIT
    /\ \A t \in Threads : \A k \in 1..Len(frames[t].results) :
          StrLen(frames[t].results[k].text) <= TEXT_LIMIT

C17_Witness ==
    LET f == frames[Main]
    IN  /\ f.op = "search" /\ f.pc = "returned" /\ Len(f.log) = 1
        /\ f.log[1].outcome = "built"
        /\ StrLen(ExtractText(f.log[1].page)) > TEXT_LIMIT
        /\ Corpus # <<>>
        /\ Corpus[Len(Corpus)].text = Slice(f.log[1].page.body, 0, TEXT_LIMIT)
        /\ StrLen(Corpus[Len(Corpus)].text) = TEXT_LIMIT

\* C18: in every variant every record of the stored corpus, and every
\* record a search() holds before it stores it, has a non-empty url, also
\* when the provider lists a result whose url is the empty string.
C18_UrlNonEmpty ==
    /\ \A k \in 1..Len(Corpus) : Corpus[k].url # <<>>
    /\ \A t \in Threads : \A k \in 1..Len(frames[t].results) :
          frames[t].results[k].url # <<>>

C18_Witness ==
    LET f == frames[Main]
    IN  /\ variant = "Brave"
        /\ f.op = "search" /\ f.pc = "returned" /\ Len(f.log) = 2
        /\ f.log[1].res = ResEmptyUrl /\ f.log[1].outcome = "failed"
        /\ f.log[2].outcome = "built"
        /\ Len(Corpus) = Len(CorpusOf(f.before.c)) + 1

\* C19: report() cuts its text into chunks exactly when the text is longer
\* than 250,000 characters; the chunks are then consecutive pieces of the
\* text without overlap, of at most 250,000 characters each,
\* ceil(length / 250,000) in number, and together they are the text.  A
\* text of exactly 250,000 characters is summarized with a single call.
C19_Chunking ==
    LET f == frames[Main]
        blob == FullText(f.loaded)
        n == Len(f.texts)
        Offset(k) == StrLen(Flatten(SubSeq(f.texts, 1, k - 1)))
    IN  (f.op = "report" /\ f.texts # <<>>) =>
           /\ f.chunked <=> (StrLen(blob) > 250000)
           /\ f.chunked =>
                 /\ (n - 1) * 250000 < StrLen(blob) /\ StrLen(blob) <= n * 250000
                 /\ \A k \in 1..n :
                       /\ StrLen(f.texts[k]) >= 1 /\ StrLen(f.texts[k]) <= 250000
                       /\ f.texts[k] = Slice(blob, Offset(k), Offset(k) + StrLen(f.texts[k]))
                 /\ Offset(n + 1) = StrLen(blob)
                 /\ Flatten(f.texts) = blob
           /\ ~f.chunked =>
                 /\ f.texts = <<blob>>
                 /\ f.pc \in {"write", "returned"} => f.posts = <<blob>>

C19_Witness ==
    LET f == frames[Main]
    IN  /\ f.op = "report" /\ f.pc = "returned" /\ f.chunked
        /\ StrLen(FullText(f.loaded)) = 500001
        /\ Len(f.texts) = 3 /\ StrLen(f.texts[3]) = 1
        /\ Len(f.posts) = 4

\* C20: a get_querries whose language-model call fails, or whose response
\* lacks the expected fields, ends with that error after the one call: it
\* has cleaned and stored nothing, and the stored query list is the one from
\* before the call.
C20_QueryFailurePropagates ==
    LET f == frames[Main]
    IN  (f.op = "get_querries" /\ (f.pc = "raised" \/ f.exc # "none")) =>
           /\ f.pc = "raised" /\ f.exc = "LMError"
           /\ f.raw = <<>> /\ f.queries = <<>>
           /\ queries_file = f.before.q

C20_Witness ==
    LET f == frames[Main]
    IN  /\ f.op = "get_querries" /\ f.pc = "raised" /\ f.exc = "LMError"
        /\ f.before.q.st = "data" /\ f.before.q.data # <<>>
        /\ queries_file = f.before.q

\* C21: the title of every record search() builds is the provider's title
\* if that is non-empty, else the text of the document's <title> element,
\* else the empty string: always a string, also when the document has no
\* <title> element or one without a single text content.
C21_TitleResolved ==
    \A t \in Threads :
        LET f == frames[t]
            built_entries == SelectSeq(f.log, IsBuilt)
        IN  f.op = "search" =>
               /\ Len(f.results) = Len(built_entries)
               /\ \A k \in 1..Len(f.results) :
                     LET res == built_entries[k].res
                         page == built_entries[k].page
                     IN  /\ ~f.results[k].title.isNone
                         /\ f.results[k].title.s =
                               IF res.title # <<>> THEN res.title
                               ELSE IF page.has_title /\ ~page.title_string.isNone
                               THEN page.title_string.s
                               ELSE <<>>

\* C22: whenever the report button is enabled, a search run that searched
\* every stored query has ended successfully since the last query
\* generation that succeeded: no report can be started for a query list
\* that has not been fully searched.
C22_ReportNeedsSearchRun == report_btn = "normal" => searched

\* a search() between its open(results_file, 'w') and its json.dump, with
\* records stored before it that it is about to write back
Rewriting(v) ==
    /\ frames[v].op = "search" /\ frames[v].pc = "dump"
    /\ Len(frames[v].existing_results) > Len(frames[v].results)

\* C23: a report() of the interface that runs beside a search() works on a
\* whole corpus, the one before that search's append or the one after it:
\* it does not return the sentinel while a search() is writing back a
\* non-empty corpus, and it does not load a partly written file.
C23_ReportSeesWholeCorpus ==
    \A w \in Workers :
        LET f == frames[w]
        IN  f.op = "report" =>
               /\ (f.pc = "returned" /\ f.ret = Sentinel) => \A v \in Workers : ~Rewriting(v)
               /\ f.exc # "JSONDecodeError"

\* the step in which a search() of worker w's search run has raised and the
\* run leaves its loop
RunRaises(w) ==
    /\ workers[w].kind = "search" /\ workers[w].pc = "run"
    /\ frames[w].pc = "raised" /\ workers'[w].pc = "dialog"

\* C24: a search run calls search() once for each query it read, in the
\* order of the list, the next call after the one before has returned; when
\* a call raises the run ends there, no further query is searched, the
\* report button is left as it is, and the records the run's earlier calls
\* appended are in the stored corpus (looked at when no other worker runs).
C24_RunInOrderStopsOnFailure ==
    [][\A w \in Workers :
          LET r == workers[w]
              f == frames[w]
          IN  r.kind = "search" =>
                 /\ IsPrefix(r.called, r.queries)
                 /\ f.op = "search" => (Len(r.called) = r.qi /\ f.query = r.queries[r.qi])
                 /\ (r.pc = "run" /\ f.op # "search") => Len(r.called) = r.qi - 1
                 /\ Len(workers'[w].called) > Len(r.called) => f.pc = "idle"
                 /\ (r.pc = "dialog" /\ f.pc = "raised") =>
                       (workers'[w].called = r.called \/ workers'[w] = NoWorker)
                 /\ (r.pc = "dialog" /\ f.pc = "idle") => r.called = r.queries
                 /\ RunRaises(w) => report_btn' = report_btn
                 /\ (RunRaises(w) /\ \A v \in Workers \ {w} : Free(v)) =>
                       Len(Corpus) >= Len(r.appended)]_vars

\* worker w has left the try body of its operation, returned or raised
Ended(w, kind) == workers[w].kind = kind /\ workers[w].pc = "dialog"

\* the button that starts a worker of this kind
ButtonOf(kind) ==
    IF kind = "gen" THEN generate_btn ELSE IF kind = "search" THEN search_btn ELSE report_btn

\* C25: a worker whose operation has ended, returned or raised, eventually
\* sets the button that started it to enabled and the status to "Ready",
\* and no worker thread ends in any other way.
C25_ButtonsReenabled ==
    /\ \A w \in Workers : \A kind \in {"gen", "search", "report"} :
          Ended(w, kind) ~> (ButtonOf(kind) = "normal" /\ status = "Ready")
    /\ [][\A w \in Workers : \A kind \in {"gen", "search", "report"} :
             (workers[w].kind = kind /\ workers'[w].kind = "none") =>
                (Ended(w, kind) /\ ButtonOf(kind)' = "normal" /\ status' = "Ready")]_vars

C25_Witness ==
    \E w \in Workers :
        /\ Ended(w, "search") /\ frames[w].pc = "raised"
        /\ search_btn = "disabled" /\ status # "Ready"

====
